---- MODULE Spec2Model ----
(***************************************************************************)
(* CoinFlow payments core: the Ledger (payments/payments.py), the Stripe   *)
(* gateway adapter, the deposit / transfer / confirm orchestrators; and    *)
(* the user directory (db.py) behind the handlers of app.py.               *)
(*                                                                         *)
(* Money is counted in units of 1e-5 USD where only the records' flow      *)
(* matters; the float arithmetic of the fee, amount * 0.029 + 0.30, with   *)
(* its rounding, is modelled apart (float_mul, float_add, SpecFee).        *)
(***************************************************************************)
EXTENDS Integers, Sequences, FiniteSets, TLC

VARIABLES
    STRIPE_AVAILABLE,   \* payments.py:20-27, the stripe import succeeded
    STRIPE_SECRET_KEY,  \* payments.py:31, the credential: "absent", "malformed", "sk_"
    transactions,       \* Ledger.transactions, the in-memory sequence
    store,              \* the backing file Ledger.storage_file
    nextUuid,           \* the uuid4 values issued so far are 1 .. nextUuid - 1
    provider,           \* the objects held by the payment provider, by reference
    faults,             \* how many writes of the backing file have failed
    call,               \* the last operation and its arguments
    result,             \* what the last operation returned
    users,              \* db.py: the rows of the table users, by id
    clock,              \* db.py: CURRENT_TIMESTAMP of the database
    requests            \* app.py: the requests in flight, each at one of its awaits

\* the user directory
dirVars == <<users, clock, requests>>

vars == <<STRIPE_AVAILABLE, STRIPE_SECRET_KEY, transactions, store, nextUuid,
          provider, faults, call, result, users, clock, requests>>

------------------------------------------------------------------------------
(* Bounds *)

\* an orchestrator starts only while fewer than MaxUuid uuid4 values were drawn
MaxUuid == 2
\* a direct log_transaction call starts only while fewer than MaxLog were drawn
MaxLog == 2
\* the entries of a backing file that a Ledger is constructed on
MaxItems == 3
\* a statement that writes the table users runs only while clock < MaxClock
MaxClock == 4
\* a direct call of the adapter creates an object only while the provider holds
\* fewer than MaxObjects
MaxObjects == 2
\* writes of the backing file that may fail in one run
MaxFaults == 1

Users == {1, 2}
\* the float arithmetic of the fee is modelled with MantissaBits bits of
\* mantissa (the build has 53), on the amounts 0.01 .. MaxCents / 100
MantissaBits == 11
MaxCents == 20

\* at most MaxRequests requests to the user directory are in flight together
MaxRequests == 3
Requests == 1..MaxRequests

\* datetime values, [second, microsecond]
T0 == [s |-> 1, us |-> 0]
T7 == [s |-> 1, us |-> 7]
\* a write succeeds, fails before the file is opened, or fails after open(.., 'w')
\* has truncated it
SaveOutcomes == {"ok", "open_fails", "dump_fails"}
Faulty(outcome) == IF outcome = "ok" THEN 0 ELSE 1

None == 0

------------------------------------------------------------------------------
(* Enums and the Transaction record *)

TransactionType == {"STRIPE_DEPOSIT", "CARD_TO_CARD", "CARD_WITHDRAWAL"}

TransactionTypeValue(t) ==
    CASE t = "STRIPE_DEPOSIT" -> "stripe_deposit"
      [] t = "CARD_TO_CARD" -> "card_to_card"
      [] t = "CARD_WITHDRAWAL" -> "card_withdrawal"

TransactionStatus == {"PENDING", "COMPLETED", "FAILED", "CANCELLED"}

TransactionStatusValue(s) ==
    CASE s = "PENDING" -> "pending"
      [] s = "COMPLETED" -> "completed"
      [] s = "FAILED" -> "failed"
      [] s = "CANCELLED" -> "cancelled"

NoMetadata == [none |-> TRUE]
AmountMetadata(a) == [none |-> FALSE, amount |-> a]

Transaction(id, user_id, type, gross, net, fee, status, timestamp, metadata) ==
    [id |-> id, user_id |-> user_id, type |-> type, gross |-> gross, net |-> net,
     fee |-> fee, status |-> status, timestamp |-> timestamp, metadata |-> metadata]

------------------------------------------------------------------------------
(* Serialisation: Transaction.to_dict and the constructor calls of the load *)

\* datetime.isoformat(): the fraction is written only when microsecond # 0
isoformat(ts) == IF ts.us = 0 THEN <<ts.s>> ELSE <<ts.s, ts.us>>

fromisoformat_drops_fraction(str) == [s |-> str[1], us |-> 0]

\* datetime.fromisoformat(): the fraction is optional
fromisoformat(str) ==
    IF Len(str) = 1 THEN [s |-> str[1], us |-> 0] ELSE [s |-> str[1], us |-> str[2]]

to_dict(tx) ==
    [id |-> tx.id, user_id |-> tx.user_id, type |-> TransactionTypeValue(tx.type),
     gross |-> tx.gross, net |-> tx.net, fee |-> tx.fee,
     status |-> TransactionStatusValue(tx.status),
     timestamp |-> isoformat(tx.timestamp), metadata |-> tx.metadata]

RequiredKeys == {"id", "user_id", "type", "gross", "net", "fee", "status", "timestamp"}

\* item['k'] raises KeyError, TransactionType(v) / TransactionStatus(v) raise ValueError
ItemRaises(item) ==
    \/ \E k \in RequiredKeys : k \notin DOMAIN item
    \/ ~ \E t \in TransactionType : TransactionTypeValue(t) = item.type
    \/ ~ \E s \in TransactionStatus : TransactionStatusValue(s) = item.status

ItemToTransaction(item) ==
    Transaction(item.id, item.user_id,
                CHOOSE t \in TransactionType : TransactionTypeValue(t) = item.type,
                item.gross, item.net, item.fee,
                CHOOSE s \in TransactionStatus : TransactionStatusValue(s) = item.status,
                fromisoformat(item.timestamp),
                IF "metadata" \in DOMAIN item THEN item.metadata ELSE NoMetadata)

\* the for loop of the load: the first item that raises ends it, what was
\* appended before stays
RECURSIVE LoadItems(_, _)
LoadItems(data, acc) ==
    IF data = <<>> THEN acc
    ELSE IF ItemRaises(Head(data)) THEN acc
    ELSE LoadItems(Tail(data), Append(acc, ItemToTransaction(Head(data))))

NoFile == [kind |-> "absent", data |-> <<>>]
PartialFile == [kind |-> "partial", data |-> <<>>]
JsonFile(data) == [kind |-> "json", data |-> data]

\* Ledger.__init__ + _load_transactions: the sequence a new Ledger holds
_load_transactions(file) ==
    IF file.kind = "json" THEN LoadItems(file.data, <<>>) ELSE <<>>

_save_transactions_appends_last(txs, file, outcome) ==
    CASE outcome = "ok" ->
            JsonFile(IF txs = <<>> THEN file.data
                     ELSE Append(file.data, to_dict(txs[Len(txs)])))
      [] outcome = "open_fails" -> file
      [] outcome = "dump_fails" -> PartialFile

\* Ledger._save_transactions: the file after the call
_save_transactions(txs, file, outcome) ==
    CASE outcome = "ok" -> JsonFile([i \in 1..Len(txs) |-> to_dict(txs[i])])
      [] outcome = "open_fails" -> file
      [] outcome = "dump_fails" -> PartialFile

------------------------------------------------------------------------------
(* Ledger methods, on L = [transactions, store] *)

log_transaction_rolls_back(L, id, user_id, type, gross, net, fee, status, now, metadata, outcome) ==
    LET txs == Append(L.transactions,
                      Transaction(id, user_id, type, gross, net, fee, status, now, metadata))
    IN IF outcome = "ok"
       THEN [transactions |-> txs, store |-> _save_transactions(txs, L.store, outcome)]
       ELSE [transactions |-> L.transactions,
             store |-> _save_transactions(txs, L.store, outcome)]

log_transaction_prepends(L, id, user_id, type, gross, net, fee, status, now, metadata, outcome) ==
    LET txs == <<Transaction(id, user_id, type, gross, net, fee, status, now, metadata)>>
               \o L.transactions
    IN [transactions |-> txs, store |-> _save_transactions(txs, L.store, outcome)]

log_transaction(L, id, user_id, type, gross, net, fee, status, now, metadata, outcome) ==
    LET txs == Append(L.transactions,
                      Transaction(id, user_id, type, gross, net, fee, status, now, metadata))
    IN [transactions |-> txs, store |-> _save_transactions(txs, L.store, outcome)]

RECURSIVE get_transactions_reversed(_, _)
get_transactions_reversed(txs, user_id) ==
    IF txs = <<>> THEN <<>>
    ELSE IF Head(txs).user_id = user_id
         THEN get_transactions_reversed(Tail(txs), user_id) \o <<Head(txs)>>
         ELSE get_transactions_reversed(Tail(txs), user_id)

RECURSIVE get_transactions(_, _)
get_transactions(txs, user_id) ==
    IF txs = <<>> THEN <<>>
    ELSE IF Head(txs).user_id = user_id
         THEN <<Head(txs)>> \o get_transactions(Tail(txs), user_id)
         ELSE get_transactions(Tail(txs), user_id)

\* sum(tx.net for tx in transactions if deposit and completed)
RECURSIVE total_deposits(_)
total_deposits(txs) ==
    IF txs = <<>> THEN 0
    ELSE (IF Head(txs).type = "STRIPE_DEPOSIT" /\ Head(txs).status = "COMPLETED"
          THEN Head(txs).net ELSE 0) + total_deposits(Tail(txs))

\* sum(tx.gross for tx in transactions if card-to-card and completed)
RECURSIVE total_transfers_out(_)
total_transfers_out(txs) ==
    IF txs = <<>> THEN 0
    ELSE (IF Head(txs).type = "CARD_TO_CARD" /\ Head(txs).status = "COMPLETED"
          THEN Head(txs).gross ELSE 0) + total_transfers_out(Tail(txs))

get_user_balance_counts_pending(txs, user_id) ==
    LET mine == get_transactions(txs, user_id)
        RECURSIVE deposits(_)
        deposits(l) == IF l = <<>> THEN 0
                       ELSE (IF Head(l).type = "STRIPE_DEPOSIT"
                                   /\ Head(l).status \in {"COMPLETED", "PENDING"}
                             THEN Head(l).net ELSE 0) + deposits(Tail(l))
    IN [user_id |-> user_id,
        balance |-> deposits(mine) - total_transfers_out(mine),
        total_deposits |-> deposits(mine),
        total_transfers |-> total_transfers_out(mine),
        transaction_count |-> Len(mine)]

get_user_balance(txs, user_id) ==
    LET mine == get_transactions(txs, user_id)
    IN [user_id |-> user_id,
        balance |-> total_deposits(mine) - total_transfers_out(mine),
        total_deposits |-> total_deposits(mine),
        total_transfers |-> total_transfers_out(mine),
        transaction_count |-> Len(mine)]

\* the index of the first record with this id, 0 when there is none
FirstIndex(txs, id) ==
    IF \E i \in 1..Len(txs) : txs[i].id = id
    THEN CHOOSE i \in 1..Len(txs) :
            /\ txs[i].id = id
            /\ \A j \in 1..(i - 1) : txs[j].id # id
    ELSE 0

update_transaction_status_noop(L, id, status, outcome) == L

update_transaction_status_every_record(L, id, status, outcome) ==
    LET txs == [j \in 1..Len(L.transactions) |->
                   [L.transactions[j] EXCEPT !.status = status]]
    IN IF FirstIndex(L.transactions, id) = 0 THEN L
       ELSE [transactions |-> txs, store |-> _save_transactions(txs, L.store, outcome)]

update_transaction_status_saves_always(L, id, status, outcome) ==
    LET i == FirstIndex(L.transactions, id)
        txs == IF i = 0 THEN L.transactions
               ELSE [L.transactions EXCEPT ![i].status = status]
    IN [transactions |-> txs, store |-> _save_transactions(txs, L.store, outcome)]

update_transaction_status_appends_copy(L, id, status, outcome) ==
    LET i == FirstIndex(L.transactions, id)
        txs == Append(L.transactions, [L.transactions[i] EXCEPT !.status = status])
    IN IF i = 0 THEN L
       ELSE [transactions |-> txs, store |-> _save_transactions(txs, L.store, outcome)]

update_transaction_status(L, id, status, outcome) ==
    LET i == FirstIndex(L.transactions, id)
        txs == [L.transactions EXCEPT ![i].status = status]
    IN IF i = 0 THEN L
       ELSE [transactions |-> txs, store |-> _save_transactions(txs, L.store, outcome)]

Ledger == [transactions |-> transactions, store |-> store]

------------------------------------------------------------------------------
(* Configuration, payments.py:34-45 and 312-314 *)

STRIPE_INITIALIZED == STRIPE_AVAILABLE /\ STRIPE_SECRET_KEY = "sk_"

\* the global stripe_payments is an adapter, not None
stripe_payments == STRIPE_SECRET_KEY # "absent" /\ STRIPE_AVAILABLE

\* StripePayments.initialized
initialized == STRIPE_INITIALIZED /\ STRIPE_AVAILABLE

------------------------------------------------------------------------------
(* The payment provider and the gateway adapter StripePayments *)

\* whether a stripe.* call returns (TRUE) or raises (FALSE): without a well-formed
\* key stripe.api_key was never set and every call raises
StripeCallOutcomes == IF STRIPE_INITIALIZED THEN BOOLEAN ELSE {FALSE}

EmptyMetadata == [k \in {} |-> None]
UserMetadata(user_id) == [user_id |-> user_id]
IntentMetadata(user_id, transaction_id) ==
    [user_id |-> user_id, transaction_id |-> transaction_id]

\* dict.get
MetadataGet(m, k) == IF k \in DOMAIN m THEN m[k] ELSE None

\* int(amount * 100): the provider counts in cents
MinorUnits(amount) == amount \div 1000

\* `deposit` is not provider data: it records which deposit call made the object
PaymentIntent(amount, metadata, status, deposit) ==
    [object |-> "payment_intent", status |-> status, amount |-> MinorUnits(amount),
     metadata |-> metadata, deposit |-> deposit]

CheckoutSession(amount, user_id, deposit) ==
    [object |-> "checkout.session", status |-> "open", amount |-> MinorUnits(amount),
     metadata |-> UserMetadata(user_id), deposit |-> deposit]

NotInitialized ==
    [success |-> FALSE, error |-> "not_initialized", ref |-> None, status |-> "",
     metadata |-> EmptyMetadata, called |-> FALSE]

ProviderError ==
    [success |-> FALSE, error |-> "provider_error", ref |-> None, status |-> "",
     metadata |-> EmptyMetadata, called |-> TRUE]

Created(ref, obj) ==
    [success |-> TRUE, error |-> "", ref |-> ref, status |-> obj.status,
     metadata |-> obj.metadata, called |-> TRUE]

create_payment_intent(P, amount, metadata, ok, deposit) ==
    IF ~initialized THEN [provider |-> P, res |-> NotInitialized]
    ELSE IF ~ok THEN [provider |-> P, res |-> ProviderError]
    ELSE LET obj == PaymentIntent(amount, metadata, "requires_payment_method", deposit)
         IN [provider |-> Append(P, obj), res |-> Created(Len(P) + 1, obj)]

create_checkout_session(P, amount, user_id, ok, deposit) ==
    IF ~initialized THEN [provider |-> P, res |-> NotInitialized]
    ELSE IF ~ok THEN [provider |-> P, res |-> ProviderError]
    ELSE LET obj == CheckoutSession(amount, user_id, deposit)
         IN [provider |-> Append(P, obj), res |-> Created(Len(P) + 1, obj)]

\* stripe.Transfer.create and stripe.Charge.create: of the provider's answer only
\* the reference is kept
create_transfer(P, amount, ok) ==
    IF ~initialized THEN [provider |-> P, res |-> NotInitialized]
    ELSE IF ~ok THEN [provider |-> P, res |-> ProviderError]
    ELSE LET obj == [object |-> "transfer", status |-> "", amount |-> MinorUnits(amount),
                     metadata |-> EmptyMetadata, deposit |-> None]
         IN [provider |-> Append(P, obj), res |-> Created(Len(P) + 1, obj)]

create_charge(P, amount, ok) ==
    IF ~initialized THEN [provider |-> P, res |-> NotInitialized]
    ELSE IF ~ok THEN [provider |-> P, res |-> ProviderError]
    ELSE LET obj == [object |-> "charge", status |-> "succeeded",
                     amount |-> MinorUnits(amount), metadata |-> EmptyMetadata,
                     deposit |-> None]
         IN [provider |-> Append(P, obj), res |-> Created(Len(P) + 1, obj)]

retrieve_payment_intent_unguarded(P, ref, ok) ==
    IF ~ok \/ ref \notin 1..Len(P) THEN ProviderError
    ELSE IF P[ref].object # "payment_intent" THEN ProviderError
    ELSE Created(ref, P[ref])

\* stripe.PaymentIntent.retrieve raises for a reference that names no PaymentIntent
retrieve_payment_intent(P, ref, ok) ==
    IF ~initialized THEN NotInitialized
    ELSE IF ~ok \/ ref \notin 1..Len(P) THEN ProviderError
    ELSE IF P[ref].object # "payment_intent" THEN ProviderError
    ELSE Created(ref, P[ref])

------------------------------------------------------------------------------
(* Orchestrators *)

Call(op, user_id, amount, urls, ref, id) ==
    [op |-> op, user_id |-> user_id, amount |-> amount, urls |-> urls, ref |-> ref,
     id |-> id]

Result(success, error, transaction_id, user_id, ref, called) ==
    [success |-> success, error |-> error, transaction_id |-> transaction_id,
     user_id |-> user_id, ref |-> ref, called |-> called]

NoResult == [none |-> TRUE]

\* Stripe's fee: 2.9% + $0.30
StripeFee(amount) == (amount * 29) \div 1000 + 30000

\* o1, o2: the outcomes of the write of the append and of the write of the status
\* update; an outcome that is not used is "ok"
DepositViaStripe(user_id, amount, urls, ok, now, o1, o2) ==
    /\ UNCHANGED dirVars
    /\ call' = Call("deposit", user_id, amount, urls, None, None)
    /\ UNCHANGED <<STRIPE_AVAILABLE, STRIPE_SECRET_KEY>>
    /\ IF ~stripe_payments
       THEN /\ o1 = "ok" /\ o2 = "ok"
            /\ result' = Result(FALSE, "not_configured", None, None, None, FALSE)
            /\ UNCHANGED <<transactions, store, nextUuid, provider, faults>>
       ELSE /\ nextUuid <= MaxUuid
            /\ LET fee == StripeFee(amount)
                   net_amount == amount - fee
                   transaction_id == nextUuid
                   L1 == log_transaction(Ledger, transaction_id, user_id, "STRIPE_DEPOSIT",
                                         amount, net_amount, fee, "PENDING", now,
                                         AmountMetadata(amount), o1)
                   g == IF urls
                        THEN create_checkout_session(provider, amount, user_id, ok,
                                                     transaction_id)
                        ELSE create_payment_intent(provider, amount,
                                                   IntentMetadata(user_id, transaction_id),
                                                   ok, transaction_id)
                   L2 == IF g.res.success THEN L1
                         ELSE update_transaction_status(L1, transaction_id, "FAILED", o2)
               IN /\ g.res.success => o2 = "ok"
                  /\ nextUuid' = nextUuid + 1
                  /\ provider' = g.provider
                  /\ transactions' = L2.transactions
                  /\ store' = L2.store
                  /\ faults' = faults + Faulty(o1) + Faulty(o2)
                  /\ result' = Result(g.res.success, g.res.error, transaction_id, None,
                                      g.res.ref, g.res.called)

TransferRaises_only_unconfigured(ok) ==
    ~STRIPE_AVAILABLE \/ STRIPE_SECRET_KEY = "absent"

\* the try block raises: the configuration check (ValueError, line 371) or the
\* provider call, whose exception becomes the error of the result
TransferRaises(ok) == ~STRIPE_AVAILABLE \/ STRIPE_SECRET_KEY = "absent" \/ ~ok

\* stripe.PaymentIntent.create is reached
TransferCalls == STRIPE_AVAILABLE /\ STRIPE_SECRET_KEY # "absent"

CreateCardToCardTransaction(user_id, amount, ok, now, outcome) ==
    /\ UNCHANGED dirVars
    /\ nextUuid <= MaxUuid
    /\ call' = Call("transfer", user_id, amount, FALSE, None, None)
    /\ UNCHANGED <<STRIPE_AVAILABLE, STRIPE_SECRET_KEY>>
    /\ LET transaction_id == nextUuid
           raised == TransferRaises(ok)
           L1 == log_transaction(Ledger, nextUuid + 1, user_id, "CARD_TO_CARD", amount,
                                 amount, 0, IF raised THEN "FAILED" ELSE "COMPLETED",
                                 now, NoMetadata, outcome)
       IN /\ nextUuid' = nextUuid + 2
          /\ provider' = IF ~(TransferCalls /\ ok) THEN provider
                         ELSE Append(provider,
                                     PaymentIntent(amount, EmptyMetadata,
                                                   "requires_payment_method", None))
          /\ transactions' = L1.transactions
          /\ store' = L1.store
          /\ faults' = faults + Faulty(outcome)
          /\ result' = IF raised
                       THEN Result(FALSE,
                                   IF TransferCalls THEN "provider_error"
                                   ELSE "not_configured",
                                   transaction_id, None, None, TransferCalls)
                       ELSE Result(TRUE, "", transaction_id, None, Len(provider) + 1, TRUE)

ConfirmAccepts_any_status(r) == r.success

\* line 406
ConfirmAccepts(r) == r.success /\ r.status = "succeeded"

\* a call of confirm; `again` records that the call before it was a confirm of
\* the same reference
ConfirmCall(ref, again) ==
    [op |-> "confirm", user_id |-> None, amount |-> None, urls |-> FALSE, ref |-> ref,
     id |-> None, again |-> again]

ConfirmStripePayment(ref, ok, outcome) ==
    /\ UNCHANGED dirVars
    /\ call' = ConfirmCall(ref, call.op = "confirm" /\ call.ref = ref)
    /\ UNCHANGED <<STRIPE_AVAILABLE, STRIPE_SECRET_KEY, nextUuid, provider>>
    /\ IF ~stripe_payments
       THEN /\ outcome = "ok"
            /\ result' = Result(FALSE, "not_configured", None, None, ref, FALSE)
            /\ UNCHANGED <<transactions, store, faults>>
       ELSE LET r == retrieve_payment_intent(provider, ref, ok)
                user_id == MetadataGet(r.metadata, "user_id")
                transaction_id == MetadataGet(r.metadata, "transaction_id")
                L1 == IF transaction_id # None
                      THEN update_transaction_status(Ledger, transaction_id, "COMPLETED",
                                                     outcome)
                      ELSE Ledger
                writes == /\ ConfirmAccepts(r)
                          /\ FirstIndex(transactions, transaction_id) # 0
            IN /\ ~writes => outcome = "ok"
               /\ faults' = faults + Faulty(outcome)
               /\ IF ConfirmAccepts(r)
                  THEN /\ transactions' = L1.transactions
                       /\ store' = L1.store
                       /\ result' = Result(TRUE, "", transaction_id, user_id, ref, r.called)
                  ELSE /\ UNCHANGED <<transactions, store>>
                       /\ result' = Result(FALSE, "not_found_or_incomplete", None, None,
                                           ref, r.called)

\* the payer completes the payment at the provider: a PaymentIntent succeeds; a
\* Checkout Session completes and the provider makes its PaymentIntent, which does
\* not carry the session's metadata
CustomerPays(ref) ==
    /\ UNCHANGED dirVars
    /\ ref \in 1..Len(provider)
    /\ \/ /\ provider[ref].object = "payment_intent"
          /\ provider[ref].status = "requires_payment_method"
          /\ provider' = [provider EXCEPT ![ref].status = "succeeded"]
       \/ /\ provider[ref].object = "checkout.session"
          /\ provider[ref].status = "open"
          /\ provider' = Append([provider EXCEPT ![ref].status = "complete"],
                                [object |-> "payment_intent", status |-> "succeeded",
                                 amount |-> provider[ref].amount,
                                 metadata |-> EmptyMetadata,
                                 deposit |-> provider[ref].deposit])
    /\ call' = Call("pays", None, None, FALSE, ref, None)
    /\ result' = NoResult
    /\ UNCHANGED <<STRIPE_AVAILABLE, STRIPE_SECRET_KEY, transactions, store, nextUuid,
                   faults>>

\* the process starts again: ledger = Ledger() reads the file
Restart ==
    /\ UNCHANGED dirVars
    /\ transactions' = _load_transactions(store)
    /\ call' = Call("restart", None, None, FALSE, None, None)
    /\ result' = NoResult
    /\ UNCHANGED <<STRIPE_AVAILABLE, STRIPE_SECRET_KEY, store, nextUuid, provider, faults>>

------------------------------------------------------------------------------
(* Direct calls of the adapter's methods, on StripePayments(STRIPE_SECRET_KEY) *)

\* a call that creates an object at the provider, g its outcome
AdapterCreate(op, amount, g) ==
    /\ UNCHANGED dirVars
    /\ Len(provider) < MaxObjects
    /\ call' = Call(op, None, amount, FALSE, None, None)
    /\ provider' = g.provider
    /\ result' = g.res
    /\ UNCHANGED <<STRIPE_AVAILABLE, STRIPE_SECRET_KEY, transactions, store, nextUuid,
                   faults>>

AdapterRetrieve(ref, ok) ==
    /\ UNCHANGED dirVars
    /\ call' = Call("retrieve_payment_intent", None, None, FALSE, ref, None)
    /\ result' = retrieve_payment_intent(provider, ref, ok)
    /\ UNCHANGED <<STRIPE_AVAILABLE, STRIPE_SECRET_KEY, transactions, store, nextUuid,
                   provider, faults>>

------------------------------------------------------------------------------
(* Direct calls of the Ledger's methods *)

Logged(user_id, type, gross, net, fee, status, now, metadata, outcome) ==
    /\ UNCHANGED dirVars
    /\ LET L1 == log_transaction(Ledger, nextUuid, user_id, type, gross, net, fee,
                                 status, now, metadata, outcome)
       IN /\ transactions' = L1.transactions
          /\ store' = L1.store
    /\ nextUuid' = nextUuid + 1
    /\ faults' = faults + Faulty(outcome)
    /\ call' = Call("log_transaction", user_id, gross, FALSE, None, None)
    /\ result' = [transaction_id |-> nextUuid]
    /\ UNCHANGED <<STRIPE_AVAILABLE, STRIPE_SECRET_KEY, provider>>

\* a run makes at most MaxLog direct calls of log_transaction
LogTransaction(user_id, type, gross, net, fee, status, now, metadata, outcome) ==
    /\ nextUuid <= MaxLog
    /\ Logged(user_id, type, gross, net, fee, status, now, metadata, outcome)

UpdateTransactionStatus(id, status, outcome) ==
    /\ UNCHANGED dirVars
    /\ LET L1 == update_transaction_status(Ledger, id, status, outcome)
       IN /\ transactions' = L1.transactions
          /\ store' = L1.store
    /\ FirstIndex(transactions, id) = 0 => outcome = "ok"
    /\ faults' = faults + Faulty(outcome)
    /\ call' = Call("update_transaction_status", None, None, FALSE, None, id)
    /\ result' = NoResult
    /\ UNCHANGED <<STRIPE_AVAILABLE, STRIPE_SECRET_KEY, nextUuid, provider>>

GetUserBalance(user_id) ==
    /\ UNCHANGED dirVars
    /\ call' = Call("get_user_balance", user_id, None, FALSE, None, None)
    /\ result' = get_user_balance(transactions, user_id)
    /\ UNCHANGED <<STRIPE_AVAILABLE, STRIPE_SECRET_KEY, transactions, store, nextUuid,
                   provider, faults>>

GetTransactions(user_id) ==
    /\ UNCHANGED dirVars
    /\ call' = Call("get_transactions", user_id, None, FALSE, None, None)
    /\ result' = [list |-> get_transactions(transactions, user_id)]
    /\ UNCHANGED <<STRIPE_AVAILABLE, STRIPE_SECRET_KEY, transactions, store, nextUuid,
                   provider, faults>>

------------------------------------------------------------------------------
(* The user directory: db.py on the table users, and the handlers of app.py *)

\* the payments side, which the directory does not touch
payVars == <<STRIPE_AVAILABLE, STRIPE_SECRET_KEY, transactions, store, nextUuid,
             provider, faults>>

\* fetchrow found no row
NoRow == [none |-> TRUE]

Row(sub_ids, email, created_at, updated_at) ==
    [none |-> FALSE, sub_ids |-> sub_ids, email |-> email, created_at |-> created_at,
     updated_at |-> updated_at]

\* x in list
Contains(list, x) == \E i \in 1..Len(list) : list[i] = x

\* the db.py functions: the table after the call and the value returned.  `now` is
\* CURRENT_TIMESTAMP, which the column defaults and the BEFORE UPDATE trigger store
create_user_overwrites(U, id, sub_id, email, now) ==
    IF U[id] # NoRow
    THEN [users |-> [U EXCEPT ![id] = Row(<<sub_id>>, email, now, now)], ret |-> FALSE]
    ELSE [users |-> [U EXCEPT ![id] = Row(<<sub_id>>, email, now, now)], ret |-> TRUE]

create_user(U, id, sub_id, email, now) ==
    IF U[id] # NoRow
    THEN [users |-> U, ret |-> FALSE]
    ELSE [users |-> [U EXCEPT ![id] = Row(<<sub_id>>, email, now, now)], ret |-> TRUE]

update_user_add_sub_prepends(U, id, new_sub_id, now) ==
    IF U[id] = NoRow THEN [users |-> U, ret |-> FALSE]
    ELSE IF Contains(U[id].sub_ids, new_sub_id) THEN [users |-> U, ret |-> FALSE]
    ELSE [users |-> [U EXCEPT ![id].sub_ids = <<new_sub_id>> \o @,
                              ![id].updated_at = now],
          ret |-> TRUE]

update_user_add_sub(U, id, new_sub_id, now) ==
    IF U[id] = NoRow THEN [users |-> U, ret |-> FALSE]
    ELSE LET current_sub_ids == U[id].sub_ids
         IN IF Contains(current_sub_ids, new_sub_id) THEN [users |-> U, ret |-> FALSE]
            ELSE [users |-> [U EXCEPT ![id].sub_ids = current_sub_ids \o <<new_sub_id>>,
                                      ![id].updated_at = now],
                  ret |-> TRUE]

update_user_email_inserts(U, id, email, now) ==
    IF U[id] = NoRow
    THEN [users |-> [U EXCEPT ![id] = Row(<<>>, email, now, now)], ret |-> FALSE]
    ELSE [users |-> [U EXCEPT ![id].email = email, ![id].updated_at = now],
          ret |-> TRUE]

update_user_email(U, id, email, now) ==
    IF U[id] = NoRow THEN [users |-> U, ret |-> FALSE]
    ELSE [users |-> [U EXCEPT ![id].email = email, ![id].updated_at = now],
          ret |-> TRUE]

\* get_user returns None
NoUser == [none |-> TRUE]

get_user(U, id) ==
    IF U[id] = NoRow THEN NoUser
    ELSE [id |-> id, sub_ids |-> U[id].sub_ids, email |-> U[id].email,
          created_at |-> U[id].created_at, updated_at |-> U[id].updated_at]

\* the HTTP status codes the handlers answer with
HTTP_200_OK == 200
HTTP_404_NOT_FOUND == 404
HTTP_409_CONFLICT == 409

DirCall(op, user_id, sub_id, email) ==
    [op |-> op, user_id |-> user_id, sub_id |-> sub_id, email |-> email]

\* what a handler answered: the status code, the value db.py returned, the body
Response(status_code, ret, body) == [status_code |-> status_code, ret |-> ret, body |-> body]

\* a statement wrote the table: the next statement sees a later CURRENT_TIMESTAMP
Written(r) ==
    /\ r.ret => clock < MaxClock
    /\ users' = r.users
    /\ clock' = IF r.ret THEN clock + 1 ELSE clock
    /\ UNCHANGED <<payVars, requests>>

\* POST /users
CreateUser(user_id, sub_id, email) ==
    LET r == create_user(users, user_id, sub_id, email, clock)
    IN /\ Written(r)
       /\ call' = DirCall("create_user", user_id, sub_id, email)
       /\ result' = Response(IF r.ret THEN HTTP_200_OK ELSE HTTP_409_CONFLICT, r.ret, None)

\* PUT /users/{user_id}/sub-accounts: after a False the handler asks get_user
\* whether the user exists
AddSubAccount(user_id, new_sub_id) ==
    LET r == update_user_add_sub(users, user_id, new_sub_id, clock)
        user == get_user(r.users, user_id)
    IN /\ Written(r)
       /\ call' = DirCall("add_sub_account", user_id, new_sub_id, None)
       /\ result' = Response(IF r.ret THEN HTTP_200_OK
                             ELSE IF user = NoUser THEN HTTP_404_NOT_FOUND
                             ELSE HTTP_409_CONFLICT,
                             r.ret, None)

\* PUT /users/{user_id}/email
UpdateUserEmail(user_id, email) ==
    LET r == update_user_email(users, user_id, email, clock)
    IN /\ Written(r)
       /\ call' = DirCall("update_user_email", user_id, None, email)
       /\ result' = Response(IF r.ret THEN HTTP_200_OK ELSE HTTP_404_NOT_FOUND, r.ret,
                             None)

\* GET /users/{user_id}
GetUser(user_id) ==
    LET user == get_user(users, user_id)
    IN /\ call' = DirCall("get_user", user_id, None, None)
       /\ result' = Response(IF user = NoUser THEN HTTP_404_NOT_FOUND ELSE HTTP_200_OK,
                             user, user)
       /\ UNCHANGED <<payVars, dirVars>>

------------------------------------------------------------------------------
(* Concurrent requests to the user directory.  Every handler of app.py is a
   coroutine that awaits db.py, and db.py awaits each statement on a connection
   of its own (pool.acquire), outside any transaction: between two statements
   of one request the statements of the others may run *)

\* SELECT ... FROM users WHERE id = $1
fetchrow(U, id) == U[id]

\* INSERT INTO users (id, sub_ids, email): id is the PRIMARY KEY, so a second
\* row with the id raises UniqueViolationError
execute_insert_overwrites(U, id, sub_id, email, now) ==
    [users |-> [U EXCEPT ![id] = Row(<<sub_id>>, email, now, now)], raised |-> FALSE]

execute_insert(U, id, sub_id, email, now) ==
    IF U[id] # NoRow THEN [users |-> U, raised |-> TRUE]
    ELSE [users |-> [U EXCEPT ![id] = Row(<<sub_id>>, email, now, now)],
          raised |-> FALSE]

\* UPDATE users SET sub_ids = $1 WHERE id = $2
execute_update_sub_ids_appends(U, id, new_sub_ids, now) ==
    IF U[id] = NoRow THEN U
    ELSE [U EXCEPT ![id].sub_ids = @ \o <<new_sub_ids[Len(new_sub_ids)]>>,
                   ![id].updated_at = now]

execute_update_sub_ids(U, id, new_sub_ids, now) ==
    IF U[id] = NoRow THEN U
    ELSE [U EXCEPT ![id].sub_ids = new_sub_ids, ![id].updated_at = now]

\* UPDATE users SET email = $1 WHERE id = $2
execute_update_email(U, id, email, now) ==
    IF U[id] = NoRow THEN U
    ELSE [U EXCEPT ![id].email = email, ![id].updated_at = now]

\* no request has arrived in this slot yet
Idle ==
    [op |-> "none", user_id |-> None, sub_id |-> None, email |-> None, pc |-> "idle",
     found |-> FALSE, current_sub_ids |-> <<>>, status_code |-> None]

Request(op, user_id, sub_id, email, pc, found, current_sub_ids, status_code) ==
    [op |-> op, user_id |-> user_id, sub_id |-> sub_id, email |-> email, pc |-> pc,
     found |-> found, current_sub_ids |-> current_sub_ids, status_code |-> status_code]

\* the handler answers
Answered(req, status_code) == [req EXCEPT !.pc = "done", !.status_code = status_code]

\* a request arrives (they are numbered in the order of arrival) and runs until
\* its SELECT has answered: db.py decides from the row it was given
Select(r, op, user_id, sub_id, email) ==
    LET row == fetchrow(users, user_id)
        found == row # NoRow
        current_sub_ids == IF found THEN row.sub_ids ELSE <<>>
        req == Request(op, user_id, sub_id, email, "idle", found, current_sub_ids, None)
    IN /\ requests[r].pc = "idle"
       /\ \A q \in 1..(r - 1) : requests[q].pc # "idle"
       /\ requests' = [requests EXCEPT ![r] =
              CASE op = "create_user" ->
                       IF found THEN Answered(req, HTTP_409_CONFLICT)
                       ELSE [req EXCEPT !.pc = "execute"]
                [] op = "add_sub_account" ->
                       IF ~found \/ Contains(current_sub_ids, sub_id)
                       THEN [req EXCEPT !.pc = "get_user"]
                       ELSE [req EXCEPT !.pc = "execute"]
                [] op = "update_user_email" ->
                       IF ~found THEN Answered(req, HTTP_404_NOT_FOUND)
                       ELSE [req EXCEPT !.pc = "execute"]
                [] op = "get_user" ->
                       Answered(req, IF found THEN HTTP_200_OK ELSE HTTP_404_NOT_FOUND)]
       /\ UNCHANGED <<users, clock, payVars, call, result>>

\* the INSERT or UPDATE of a request runs; create_user turns the
\* UniqueViolationError into False, which the handler answers with 409
Execute(r) ==
    LET req == requests[r]
        ins == execute_insert(users, req.user_id, req.sub_id, req.email, clock)
    IN /\ req.pc = "execute"
       /\ clock < MaxClock
       /\ clock' = clock + 1
       /\ users' = CASE req.op = "create_user" -> ins.users
                     [] req.op = "add_sub_account" ->
                            execute_update_sub_ids(users, req.user_id,
                                req.current_sub_ids \o <<req.sub_id>>, clock)
                     [] req.op = "update_user_email" ->
                            execute_update_email(users, req.user_id, req.email, clock)
       /\ requests' = [requests EXCEPT ![r] =
              Answered(req, IF req.op = "create_user" /\ ins.raised
                            THEN HTTP_409_CONFLICT ELSE HTTP_200_OK)]
       /\ UNCHANGED <<payVars, call, result>>

\* add_sub_account after a False: it asks get_user whether the user exists
AskUser(r) ==
    LET req == requests[r]
    IN /\ req.pc = "get_user"
       /\ requests' = [requests EXCEPT ![r] =
              Answered(req, IF get_user(users, req.user_id) = NoUser
                            THEN HTTP_404_NOT_FOUND ELSE HTTP_409_CONFLICT)]
       /\ UNCHANGED <<users, clock, payVars, call, result>>

------------------------------------------------------------------------------
(* Python float arithmetic, as deposit_via_stripe uses it on the amount: binary
   floating point, every literal and every operation rounded to the nearest
   value, ties to even.  A float is m * 2^e with 2^(MantissaBits-1) <= |m| <
   2^MantissaBits, or zero *)

Float(m, e) == [m |-> m, e |-> e]

\* n / d * 2^e for n >= 0, d > 0, rounded
RECURSIVE RoundRatio(_, _, _)
RoundRatio(n, d, e) ==
    IF n = 0 THEN Float(0, 0)
    ELSE IF n >= d * 2^MantissaBits THEN RoundRatio(n, 2 * d, e + 1)
    ELSE IF n < d * 2^(MantissaBits - 1) THEN RoundRatio(2 * n, d, e - 1)
    ELSE LET q == n \div d
             r == n % d
             m == IF 2 * r > d \/ (2 * r = d /\ q % 2 = 1) THEN q + 1 ELSE q
         IN IF m = 2^MantissaBits THEN Float(2^(MantissaBits - 1), e + 1)
            ELSE Float(m, e)

float_neg(a) == Float(0 - a.m, a.e)

\* the float nearest to n / d * 2^e
Round(n, d, e) == IF n < 0 THEN float_neg(RoundRatio(0 - n, d, e)) ELSE RoundRatio(n, d, e)

\* a decimal literal or a parsed JSON number n / d
float(n, d) == Round(n, d, 0)

\* a * b
float_mul(a, b) == Round(a.m * b.m, 1, a.e + b.e)

\* a + b: an addend below a quarter of the other's last place does not change it
float_add(a, b) ==
    IF a.m = 0 THEN b
    ELSE IF b.m = 0 THEN a
    ELSE LET hi == IF a.e >= b.e THEN a ELSE b
             lo == IF a.e >= b.e THEN b ELSE a
             d == hi.e - lo.e
         IN IF d > MantissaBits + 1 THEN hi
            ELSE Round(hi.m * 2^d + lo.m, 1, lo.e)

\* a - b
float_sub(a, b) == float_add(a, float_neg(b))

\* fee = amount * 0.029 + 0.30
fee(amount) == float_add(float_mul(amount, float(29, 1000)), float(3, 10))

\* net_amount = amount - fee
net_amount(amount) == float_sub(amount, fee(amount))

\* deposit_via_stripe with a configured provider, as far as the ledger sees the
\* amount: the fee, the net amount and the append of the pending record
LogDeposit(user_id, amount, now) ==
    /\ UNCHANGED dirVars
    /\ nextUuid <= MaxUuid
    /\ LET L1 == log_transaction(Ledger, nextUuid, user_id, "STRIPE_DEPOSIT", amount,
                                 net_amount(amount), fee(amount), "PENDING", now,
                                 AmountMetadata(amount), "ok")
       IN /\ transactions' = L1.transactions
          /\ store' = L1.store
    /\ nextUuid' = nextUuid + 1
    /\ call' = Call("deposit", user_id, amount, FALSE, None, None)
    /\ result' = [transaction_id |-> nextUuid]
    /\ UNCHANGED <<STRIPE_AVAILABLE, STRIPE_SECRET_KEY, provider, faults>>

------------------------------------------------------------------------------
(* Specifications *)

Init ==
    /\ STRIPE_AVAILABLE \in BOOLEAN
    /\ STRIPE_SECRET_KEY \in {"absent", "malformed", "sk_"}
    /\ store = NoFile
    /\ transactions = _load_transactions(store)
    /\ nextUuid = 1
    /\ provider = <<>>
    /\ faults = 0
    /\ call = Call("init", None, None, FALSE, None, None)
    /\ result = NoResult
    /\ users = [id \in Users |-> NoRow]
    /\ clock = 1
    /\ requests = [r \in Requests |-> Idle]

\* the write outcomes a step may draw: failures only while the run has some left
Outcomes == {o \in SaveOutcomes : Faulty(o) <= MaxFaults - faults}

\* the orchestrators are driven with one amount (50 USD) and one clock reading,
\* and a failing write is the one that truncates the file
OrchAmounts == {5000000}
OrchTimestamps == {T7}
OrchOutcomes == {o \in {"ok", "dump_fails"} : Faulty(o) <= MaxFaults - faults}

Deposit ==
    \E user_id \in Users, amount \in OrchAmounts, urls \in BOOLEAN,
       ok \in StripeCallOutcomes, now \in OrchTimestamps, o1 \in OrchOutcomes,
       o2 \in OrchOutcomes :
        /\ Faulty(o1) + Faulty(o2) <= MaxFaults - faults
        /\ DepositViaStripe(user_id, amount, urls, ok, now, o1, o2)

Transfer ==
    \E user_id \in Users, amount \in OrchAmounts, ok \in StripeCallOutcomes,
       now \in OrchTimestamps, outcome \in OrchOutcomes :
        CreateCardToCardTransaction(user_id, amount, ok, now, outcome)

Confirm ==
    \E ref \in 1..(Len(provider) + 1), ok \in StripeCallOutcomes,
       outcome \in OrchOutcomes :
        ConfirmStripePayment(ref, ok, outcome)

Pays == \E ref \in 1..Len(provider) : CustomerPays(ref)

Next == Deposit \/ Transfer \/ Confirm \/ Pays \/ Restart

Spec == Init /\ [][Next]_vars

\* the records direct calls log: every type, every status, both users, both
\* timestamp forms, with and without metadata
LogInputs ==
    {<<1, "STRIPE_DEPOSIT", 5000000, 4825000, 175000, "PENDING", T7,
       AmountMetadata(5000000)>>,
     <<2, "CARD_TO_CARD", 2000000, 2000000, 0, "COMPLETED", T0, NoMetadata>>,
     <<1, "CARD_WITHDRAWAL", 2000000, 2000000, 0, "CANCELLED", T7, NoMetadata>>}

LedgerLog ==
    \E in \in LogInputs, outcome \in Outcomes :
        LogTransaction(in[1], in[2], in[3], in[4], in[5], in[6], in[7], in[8], outcome)

\* the statuses the callers pass (lines 357, 412), and the initial one
UpdateInputs == {"COMPLETED", "FAILED", "PENDING"}

LedgerUpdate ==
    \E id \in 1..nextUuid, status \in UpdateInputs, outcome \in Outcomes :
        UpdateTransactionStatus(id, status, outcome)

LedgerGet == \E user_id \in Users : GetTransactions(user_id)

NextLedger == LedgerLog \/ LedgerUpdate \/ LedgerGet \/ Restart

\* the Ledger does not read the provider configuration
InitLedger == Init /\ STRIPE_AVAILABLE /\ STRIPE_SECRET_KEY = "sk_"

SpecLedger == InitLedger /\ [][NextLedger]_vars

\* one running Ledger: the orchestrators and the direct calls that mutate it, in
\* any order, with no restart between them.  The direct calls log a withdrawal
\* and mark the record with the first id failed, and their writes succeed
RunningLog ==
    LogTransaction(1, "CARD_WITHDRAWAL", 2000000, 2000000, 0, "CANCELLED", T7, NoMetadata,
                   "ok")

RunningUpdate == UpdateTransactionStatus(1, "FAILED", "ok")

NextRunning == Deposit \/ Transfer \/ Confirm \/ Pays \/ RunningLog \/ RunningUpdate

SpecRunning == InitLedger /\ [][NextRunning]_vars

\* A Ledger constructed on a backing file that it did not write in this run.
\* The records a file holds: both users, every type, every status
StoredRecords ==
    {Transaction(None, 1, "STRIPE_DEPOSIT", 5000000, 4825000, 175000, "COMPLETED", T7,
                 AmountMetadata(5000000)),
     Transaction(None, 1, "STRIPE_DEPOSIT", 5000000, 4825000, 175000, "PENDING", T7,
                 AmountMetadata(5000000)),
     Transaction(None, 1, "CARD_TO_CARD", 2000000, 2000000, 0, "COMPLETED", T0, NoMetadata),
     Transaction(None, 1, "CARD_TO_CARD", 2000000, 2000000, 0, "FAILED", T0, NoMetadata),
     Transaction(None, 1, "CARD_WITHDRAWAL", 2000000, 2000000, 0, "COMPLETED", T0,
                 NoMetadata),
     Transaction(None, 2, "CARD_TO_CARD", 2000000, 2000000, 0, "COMPLETED", T7, NoMetadata),
     Transaction(None, 2, "STRIPE_DEPOSIT", 5000000, 4825000, 175000, "CANCELLED", T0,
                 AmountMetadata(5000000))}

\* an entry without the 'status' key: item['status'] raises KeyError
MissingStatus(item) == [k \in (DOMAIN item) \ {"status"} |-> item[k]]

\* an entry whose type is no value of the enum: TransactionType(..) raises ValueError
UnknownType(item) == [item EXCEPT !.type = "bank_wire"]

StoredItems ==
    {to_dict(tx) : tx \in StoredRecords}
        \cup {MissingStatus(to_dict(tx)) : tx \in {r \in StoredRecords : r.status = "FAILED"}}
        \cup {UnknownType(to_dict(tx)) : tx \in {r \in StoredRecords : r.status = "CANCELLED"}}

\* the entries of one file carry different ids
Numbered(data) == [i \in DOMAIN data |-> [data[i] EXCEPT !.id = i]]

Files ==
    {NoFile, PartialFile}
        \cup {JsonFile(Numbered(data)) :
                 data \in UNION {[1..n -> StoredItems] : n \in 0..MaxItems}}

InitLoad ==
    /\ STRIPE_AVAILABLE = TRUE
    /\ STRIPE_SECRET_KEY = "sk_"
    /\ store \in Files
    /\ transactions = _load_transactions(store)
    /\ nextUuid = Len(store.data) + 1
    /\ provider = <<>>
    /\ faults = 0
    /\ call = Call("init", None, None, FALSE, None, None)
    /\ result = NoResult
    /\ users = [id \in Users |-> NoRow]
    /\ clock = 1
    /\ requests = [r \in Requests |-> Idle]

Balance == \E user_id \in Users : GetUserBalance(user_id)

\* the loaded Ledger logs a withdrawal and its write succeeds: the file and the
\* records logged since hold at most MaxItems + 1 entries
LoadedLog ==
    /\ nextUuid <= MaxItems + 1
    /\ Logged(1, "CARD_WITHDRAWAL", 2000000, 2000000, 0, "PENDING", T7, NoMetadata, "ok")

NextLoad == Restart \/ Balance \/ LoadedLog

SpecLoad == InitLoad /\ [][NextLoad]_vars

\* An adapter constructed under every configuration and called directly
CreateIntent ==
    \E amount \in OrchAmounts, metadata \in {EmptyMetadata, UserMetadata(1)},
       ok \in StripeCallOutcomes :
        AdapterCreate("create_payment_intent", amount,
                      create_payment_intent(provider, amount, metadata, ok, None))

CreateSession ==
    \E amount \in OrchAmounts, user_id \in Users, ok \in StripeCallOutcomes :
        AdapterCreate("create_checkout_session", amount,
                      create_checkout_session(provider, amount, user_id, ok, None))

CreateTransfer ==
    \E amount \in OrchAmounts, ok \in StripeCallOutcomes :
        AdapterCreate("create_transfer", amount, create_transfer(provider, amount, ok))

CreateCharge ==
    \E amount \in OrchAmounts, ok \in StripeCallOutcomes :
        AdapterCreate("create_charge", amount, create_charge(provider, amount, ok))

Retrieve ==
    \E ref \in 1..(Len(provider) + 1), ok \in StripeCallOutcomes :
        AdapterRetrieve(ref, ok)

NextAdapter ==
    CreateIntent \/ CreateSession \/ CreateTransfer \/ CreateCharge \/ Retrieve \/ Pays

SpecAdapter == Init /\ [][NextAdapter]_vars

\* The user directory behind its HTTP handlers, one request at a time
SubIds == {1, 2, 3}
\* e-mail addresses, by number; UserCreate.email is optional, EmailUpdate.email
\* is not
CreateEmails == {None, 1}
UpdateEmails == {2}

Create ==
    \E user_id \in Users, sub_id \in SubIds, email \in CreateEmails :
        CreateUser(user_id, sub_id, email)

AddSub == \E user_id \in Users, new_sub_id \in SubIds : AddSubAccount(user_id, new_sub_id)

SetEmail == \E user_id \in Users, email \in UpdateEmails : UpdateUserEmail(user_id, email)

Get == \E user_id \in Users : GetUser(user_id)

NextUsers == Create \/ AddSub \/ SetEmail \/ Get

\* the directory does not read the provider configuration
SpecUsers == InitLedger /\ [][NextUsers]_vars

\* deposits of every amount from one cent to MaxCents cents, and reloads
FeeAmounts == {float(cents, 100) : cents \in 1..MaxCents}
FeeDeposit == \E amount \in FeeAmounts : LogDeposit(1, amount, T7)
NextFee == FeeDeposit \/ Restart

SpecFee == InitLedger /\ [][NextFee]_vars

\* concurrent requests to the user directory, all about one user
RaceUser == 1
RaceInputs ==
    {<<"create_user", 1, None>>, <<"create_user", 2, 1>>,
     <<"add_sub_account", 1, None>>, <<"add_sub_account", 2, None>>,
     <<"add_sub_account", 3, None>>, <<"update_user_email", None, 2>>,
     <<"get_user", None, None>>}
Arrive == \E r \in Requests, in \in RaceInputs : Select(r, in[1], RaceUser, in[2], in[3])
Write == \E r \in Requests : Execute(r)
Verify == \E r \in Requests : AskUser(r)
NextRace == Arrive \/ Write \/ Verify

SpecRace == InitLedger /\ [][NextRace]_vars

------------------------------------------------------------------------------
(* Properties *)

Last(seq) == seq[Len(seq)]

\* the sequence after the step is the sequence before it plus one record
AppendedOne == /\ Len(transactions') = Len(transactions) + 1
               /\ SubSeq(transactions', 1, Len(transactions)) = transactions

\* the provider accepted a call of this step: it holds a new object
ProviderAccepted == Len(provider') = Len(provider) + 1

HasId(txs, id) == \E i \in 1..Len(txs) : txs[i].id = id

\* C1: a deposit attempted while the provider is not configured (the credential
\* absent or malformed, or the library missing) returns a not-configured failure
\* and appends exactly one deposit record, pending or failed, to the ledger.
C1_UnconfiguredDepositIsLogged ==
    [][(call'.op = "deposit" /\ ~STRIPE_INITIALIZED) =>
          /\ ~result'.success
          /\ result'.error \in {"not_configured", "not_initialized"}
          /\ AppendedOne
          /\ Last(transactions').type = "STRIPE_DEPOSIT"
          /\ Last(transactions').user_id = call'.user_id
          /\ Last(transactions').status \in {"PENDING", "FAILED"}]_vars

\* C2: the transaction_id a transfer returns, on success and on failure, is the id
\* of the ledger record logged for that transfer.
C2_TransferReturnsLoggedId ==
    call.op = "transfer" =>
        /\ transactions # <<>>
        /\ Last(transactions).id = result.transaction_id

\* C3: every transfer, also one made without configuration, appends exactly one
\* card-to-card record: completed iff the provider call succeeded, failed
\* otherwise, with net = gross and fee = 0.
C3_TransferLogsOneRecord ==
    [][call'.op = "transfer" =>
          /\ AppendedOne
          /\ LET tx == Last(transactions')
             IN /\ tx.type = "CARD_TO_CARD"
                /\ tx.user_id = call'.user_id
                /\ tx.gross = call'.amount
                /\ tx.net = tx.gross
                /\ tx.fee = 0
                /\ tx.status = IF ProviderAccepted THEN "COMPLETED" ELSE "FAILED"]_vars

C3_Witness ==
    /\ call.op = "transfer"
    /\ STRIPE_SECRET_KEY = "absent"
    /\ transactions # <<>>
    /\ Last(transactions).type = "CARD_TO_CARD"
    /\ Last(transactions).status = "FAILED"

\* C4: a deposit made while the adapter exists appends exactly one deposit record,
\* whose id is the returned transaction_id; the record is pending and the result a
\* success when the gateway accepted, failed and the result a failure that still
\* carries the id when it did not.
C4_DepositLogsOneRecord ==
    [][(call'.op = "deposit" /\ stripe_payments) =>
          /\ AppendedOne
          /\ LET tx == Last(transactions')
             IN /\ tx.type = "STRIPE_DEPOSIT"
                /\ tx.user_id = call'.user_id
                /\ tx.gross = call'.amount
                /\ tx.id = result'.transaction_id
                /\ result'.success = ProviderAccepted
                /\ tx.status = IF ProviderAccepted THEN "PENDING" ELSE "FAILED"]_vars

C4_Witness ==
    /\ call.op = "deposit"
    /\ STRIPE_INITIALIZED
    /\ ~result.success
    /\ transactions # <<>>
    /\ Last(transactions).id = result.transaction_id
    /\ Last(transactions).status = "FAILED"

\* the deposit whose gateway call made the provider object `ref` was paid, and the
\* reference names a PaymentIntent
PaidDepositIntent(ref) ==
    /\ ref \in 1..Len(provider)
    /\ provider[ref].object = "payment_intent"
    /\ provider[ref].status = "succeeded"
    /\ provider[ref].deposit # None

\* C5: for a deposit the gateway accepted, by either path, a confirm of its paid
\* PaymentIntent that returns success leaves the deposit's record completed.  (The
\* claim also says that the confirm returns success; this is the part of it that
\* does not depend on the provider answering.)
C5_ConfirmCompletesDeposit ==
    (/\ call.op = "confirm"
     /\ PaidDepositIntent(call.ref)
     /\ HasId(transactions, provider[call.ref].deposit)
     /\ result.success) =>
        \A i \in 1..Len(transactions) :
            transactions[i].id = provider[call.ref].deposit =>
                transactions[i].status = "COMPLETED"

\* the reference names no PaymentIntent, or one that has not succeeded
NotSucceeded(ref) ==
    \/ ref \notin 1..Len(provider)
    \/ provider[ref].object # "payment_intent"
    \/ provider[ref].status # "succeeded"

\* C6: a confirm with an unknown reference, or one whose status is not
\* 'succeeded', or made without configuration, returns failure and changes
\* neither the in-memory sequence nor the backing file.
C6_FailedConfirmChangesNothing ==
    [][(call'.op = "confirm" /\ (NotSucceeded(call'.ref) \/ ~STRIPE_INITIALIZED)) =>
          /\ ~result'.success
          /\ transactions' = transactions
          /\ store' = store]_vars

C6_Witness ==
    /\ call.op = "confirm"
    /\ call.ref \in 1..Len(provider)
    /\ provider[call.ref].object = "payment_intent"
    /\ provider[call.ref].status = "requires_payment_method"
    /\ HasId(transactions, MetadataGet(provider[call.ref].metadata, "transaction_id"))
    /\ ~result.success

\* the indices of a user's records
IndicesOf(txs, user_id) == {i \in 1..Len(txs) : txs[i].user_id = user_id}

\* the k-th smallest element of a set of numbers
Kth(S, k) == CHOOSE i \in S : Cardinality({j \in S : j < i}) = k - 1

\* C7: get_transactions(u) returns exactly the records whose user_id is u, each
\* once, in the order of the sequence, and changes nothing in the ledger.
C7_GetTransactionsFilters ==
    [][call'.op = "get_transactions" =>
          /\ transactions' = transactions
          /\ store' = store
          /\ LET S == IndicesOf(transactions, call'.user_id)
                 list == result'.list
             IN /\ Len(list) = Cardinality(S)
                /\ \A k \in 1..Len(list) : list[k] = transactions[Kth(S, k)]]_vars

C7_Witness ==
    /\ call.op = "get_transactions"
    /\ Len(transactions) = 2
    /\ transactions[1].user_id # call.user_id
    /\ Len(result.list) = 1
    /\ result.list[1] = transactions[2]

\* C8: update_transaction_status on an id of the ledger changes the status of the
\* first record with that id and nothing else: every other field of it, every
\* other record and the order stay.
C8_UpdateChangesOnlyStatus ==
    [][(call'.op = "update_transaction_status" /\ HasId(transactions, call'.id)) =>
          /\ Len(transactions') = Len(transactions)
          /\ \A j \in 1..Len(transactions) :
                IF j = FirstIndex(transactions, call'.id)
                THEN [transactions'[j] EXCEPT !.status = transactions[j].status]
                         = transactions[j]
                ELSE transactions'[j] = transactions[j]]_vars

C8_Witness ==
    /\ call.op = "update_transaction_status"
    /\ Len(transactions) = 2
    /\ HasId(transactions, call.id)
    /\ \E i, j \in 1..2 : /\ transactions[i].id = call.id
                          /\ transactions[i].status = "FAILED"
                          /\ transactions[j].status # "FAILED"

\* C9: update_transaction_status on an id that is not in the ledger does nothing:
\* it returns nothing, and the in-memory sequence and the backing file stay.
C9_UpdateOfMissingIdIsNoOp ==
    [][(call'.op = "update_transaction_status" /\ ~HasId(transactions, call'.id)) =>
          /\ result' = NoResult
          /\ transactions' = transactions
          /\ store' = store]_vars

C9_Witness ==
    /\ call.op = "update_transaction_status"
    /\ ~HasId(transactions, call.id)
    /\ transactions # <<>>
    /\ store.kind # "json"

\* C10: a new Ledger made on the file a successful _save_transactions wrote holds
\* the sequence that was saved, record by record and field by field.
C10_SaveLoadRoundTrip ==
    _load_transactions(_save_transactions(transactions, store, "ok")) = transactions

\* a reload that brought back two records of different types, one with and one
\* without a fraction of a second, one with and one without metadata
C10_Witness ==
    /\ call.op = "restart"
    /\ Len(transactions) = 2
    /\ store = _save_transactions(transactions, store, "ok")
    /\ \E i, j \in 1..2 : /\ transactions[i].timestamp.us = 0
                          /\ transactions[j].timestamp.us # 0
                          /\ transactions[i].metadata = NoMetadata
                          /\ transactions[j].metadata # NoMetadata
                          /\ transactions[i].type # transactions[j].type

\* C11: when the write of the backing file fails during log_transaction, the call
\* still returns the new record's id, and the record stays at the end of the
\* in-memory sequence, where get_transactions and get_user_balance see it.
C11_FailedWriteKeepsRecord ==
    [][(call'.op = "log_transaction" /\ faults' > faults) =>
          /\ AppendedOne
          /\ result'.transaction_id = Last(transactions').id
          /\ LET u == call'.user_id
                 tx == Last(transactions')
                 before == get_user_balance(transactions, u)
                 after == get_user_balance(transactions', u)
             IN /\ tx.user_id = u
                /\ Last(get_transactions(transactions', u)) = tx
                /\ after.transaction_count = before.transaction_count + 1
                /\ (tx.type = "CARD_TO_CARD" /\ tx.status = "COMPLETED") =>
                       after.balance = before.balance - tx.gross]_vars

\* a completed transfer whose write failed is in memory and not in the file
C11_Witness ==
    /\ call.op = "log_transaction"
    /\ faults > 0
    /\ Len(transactions) = 2
    /\ Last(transactions).id = result.transaction_id
    /\ Last(transactions).status = "COMPLETED"
    /\ _load_transactions(store) # transactions

\* the entries of a file that the constructor calls of the load accept, in order
ValidEntries(data) == SelectSeq(data, LAMBDA item : ~ItemRaises(item))

\* C12: a Ledger constructed on a file with corrupt entries holds exactly the valid
\* entries of the file, in their order, also those that come after a corrupt one.
C12_LoadKeepsEveryValidEntry ==
    store.kind = "json" =>
        LET valid == ValidEntries(store.data)
        IN transactions = [i \in 1..Len(valid) |-> ItemToTransaction(valid[i])]

\* the sum of f over the set S of indices
RECURSIVE SumOver(_, _)
SumOver(S, f) ==
    IF S = {} THEN 0
    ELSE LET i == CHOOSE j \in S : TRUE IN f[i] + SumOver(S \ {i}, f)

\* the indices of a user's completed records of a type
CompletedOf(txs, user_id, type) ==
    {i \in 1..Len(txs) : /\ txs[i].user_id = user_id
                          /\ txs[i].type = type
                          /\ txs[i].status = "COMPLETED"}

\* C13: get_user_balance(u) returns total_deposits = the sum of net over u's
\* completed deposits, total_transfers = the sum of gross over u's completed
\* card-to-card records, balance = total_deposits - total_transfers; nothing else
\* contributes, and the balance is 0 when u has neither.
C13_BalanceIsDepositsMinusTransfers ==
    call.op = "get_user_balance" =>
        LET u == call.user_id
            D == CompletedOf(transactions, u, "STRIPE_DEPOSIT")
            X == CompletedOf(transactions, u, "CARD_TO_CARD")
        IN /\ result.total_deposits = SumOver(D, [i \in D |-> transactions[i].net])
           /\ result.total_transfers = SumOver(X, [i \in X |-> transactions[i].gross])
           /\ result.balance = result.total_deposits - result.total_transfers
           /\ (D = {} /\ X = {}) => result.balance = 0

\* the balance of a user with a completed deposit, a completed transfer and one
\* more record that does not count
C13_Witness ==
    /\ call.op = "get_user_balance"
    /\ Len(transactions) = 3
    /\ \A i \in 1..3 : transactions[i].user_id = call.user_id
    /\ CompletedOf(transactions, call.user_id, "STRIPE_DEPOSIT") # {}
    /\ CompletedOf(transactions, call.user_id, "CARD_TO_CARD") # {}
    /\ \E i \in 1..3 : transactions[i].status # "COMPLETED"
                          \/ transactions[i].type = "CARD_WITHDRAWAL"
    /\ result.balance = 2825000

\* C14: while the credential is absent or malformed, deposit and transfer behave
\* alike: neither reaches a provider call, and both return a not-configured
\* failure.
C14_UnconfiguredTreatedAlike ==
    (call.op \in {"deposit", "transfer"} /\ ~STRIPE_INITIALIZED) =>
        /\ ~result.success
        /\ ~result.called
        /\ result.error \in {"not_configured", "not_initialized"}

AdapterOps ==
    {"create_payment_intent", "create_checkout_session", "retrieve_payment_intent",
     "create_transfer", "create_charge"}

\* C15: an adapter constructed while the provider is not configured answers every
\* call of every operation with the same not-initialized failure and reaches no
\* provider call, and no call makes it configured.
C15_UnconfiguredAdapterAlwaysRefuses ==
    [][~initialized =>
          /\ ~initialized'
          /\ call'.op \in AdapterOps =>
                /\ result' = NotInitialized
                /\ ~result'.called
                /\ provider' = provider]_vars

\* a retrieve refused by an adapter that was constructed on a malformed credential
C15_Witness ==
    /\ ~initialized
    /\ STRIPE_SECRET_KEY = "malformed"
    /\ STRIPE_AVAILABLE
    /\ call.op = "retrieve_payment_intent"
    /\ result = NotInitialized
    /\ provider = <<>>

\* C16: creating a user whose id already exists returns Conflict (create_user
\* returns False, the handler answers 409) and leaves the stored row as the first
\* creation wrote it: sub_ids, email and created_at unchanged.
C16_DuplicateCreateIsConflict ==
    [][(call'.op = "create_user" /\ users[call'.user_id] # NoRow) =>
          /\ result'.ret = FALSE
          /\ result'.status_code = HTTP_409_CONFLICT
          /\ users' = users]_vars

\* a second creation with another sub id and another email was refused
C16_Witness ==
    /\ call.op = "create_user"
    /\ result.status_code = HTTP_409_CONFLICT
    /\ users[call.user_id] # NoRow
    /\ ~Contains(users[call.user_id].sub_ids, call.sub_id)
    /\ users[call.user_id].email # call.email
    /\ users[call.user_id].created_at < clock

\* C17: add_sub_account(id, s) on an existing user: when s is in the user's
\* sub_ids it yields Conflict and sub_ids stays; when it is not, sub_ids becomes
\* the previous list with s appended at the end.
C17_AddSubAppendsOrConflicts ==
    [][(call'.op = "add_sub_account" /\ users[call'.user_id] # NoRow) =>
          LET id == call'.user_id
              s == call'.sub_id
          IN IF Contains(users[id].sub_ids, s)
             THEN /\ result'.status_code = HTTP_409_CONFLICT
                  /\ users' = users
             ELSE /\ result'.status_code = HTTP_200_OK
                  /\ users'[id].sub_ids = Append(users[id].sub_ids, s)
                  /\ \A other \in Users \ {id} : users'[other] = users[other]]_vars

\* a third sub id was appended behind two that were not in ascending order
C17_Witness ==
    /\ call.op = "add_sub_account"
    /\ result.status_code = HTTP_200_OK
    /\ Len(users[call.user_id].sub_ids) = 3
    /\ users[call.user_id].sub_ids[3] = call.sub_id
    /\ users[call.user_id].sub_ids[1] > users[call.user_id].sub_ids[2]

\* C18: get, add_sub_account and update_email on an id that has no row report
\* not-found (None / False, 404), create no row and leave every row unchanged.
C18_MissingUserIsNotFound ==
    [][(/\ call'.op \in {"get_user", "add_sub_account", "update_user_email"}
        /\ users[call'.user_id] = NoRow) =>
          /\ result'.ret = IF call'.op = "get_user" THEN NoUser ELSE FALSE
          /\ result'.status_code = HTTP_404_NOT_FOUND
          /\ users' = users]_vars

\* an email update for a missing id was refused while another user has a row
C18_Witness ==
    /\ call.op = "update_user_email"
    /\ result.status_code = HTTP_404_NOT_FOUND
    /\ users[call.user_id] = NoRow
    /\ \E other \in Users : users[other] # NoRow

\* the step is a log_transaction, or an update_transaction_status of an id of the
\* ledger, and its write succeeded
SuccessfulMutation ==
    /\ \/ call'.op = "log_transaction"
       \/ call'.op = "update_transaction_status" /\ HasId(transactions, call'.id)
    /\ faults' = faults

\* C19: after a mutating ledger call whose write succeeds, the backing file holds
\* exactly the in-memory sequence, in order, also when earlier writes had failed.
C19_SuccessfulWriteSyncsStore ==
    [][SuccessfulMutation =>
          /\ store' = JsonFile([i \in 1..Len(transactions') |-> to_dict(transactions'[i])])
          /\ _load_transactions(store') = transactions']_vars

\* the write of the first record had failed, the write of the second one brought
\* both into the file
C19_Witness ==
    /\ call.op = "log_transaction"
    /\ faults = 1
    /\ Len(transactions) = 2
    /\ store.kind = "json"
    /\ Len(store.data) = 2
    /\ _load_transactions(store) = transactions

\* the statuses that end a record's life
TerminalStatuses == {"COMPLETED", "FAILED", "CANCELLED"}

\* C20: under deposit, transfer and confirm calls status moves forward only: a
\* record that is completed, failed or cancelled keeps its status, and no record
\* goes back to pending.
C20_StatusOnlyForward ==
    [][call'.op \in {"deposit", "transfer", "confirm"} =>
          \A i \in 1..Len(transactions) :
              /\ i <= Len(transactions')
              /\ transactions'[i].id = transactions[i].id
              /\ transactions[i].status \in TerminalStatuses =>
                     transactions'[i].status = transactions[i].status
              /\ transactions'[i].status = "PENDING" =>
                     transactions[i].status = "PENDING"]_vars

\* a confirm completed a deposit while the ledger held a record that had already
\* reached a final status
C20_Witness ==
    /\ call.op = "confirm"
    /\ result.success
    /\ Len(transactions) = 2
    /\ \E i, j \in 1..2 :
          /\ i # j
          /\ transactions[i].id = result.transaction_id
          /\ transactions[i].type = "STRIPE_DEPOSIT"
          /\ transactions[i].status = "COMPLETED"
          /\ transactions[j].status = "FAILED"

\* every request that has arrived has been answered
AllAnswered == \A r \in Requests : requests[r].pc \in {"idle", "done"}

\* the request r was answered with success and gave the user the sub id
GaveSubId(r) ==
    /\ requests[r].op \in {"create_user", "add_sub_account"}
    /\ requests[r].pc = "done"
    /\ requests[r].status_code = HTTP_200_OK

\* C22: under any interleaving of concurrent requests a user's sub_ids only grow:
\* once all requests have finished, every sub id that a successful request gave
\* the user is in the user's sub_ids, and no id that was in a user's sub_ids is
\* missing from them later.
C22_SubIdsOnlyGrow ==
    /\ [](AllAnswered =>
            \A r \in Requests :
                GaveSubId(r) =>
                    /\ users[requests[r].user_id] # NoRow
                    /\ Contains(users[requests[r].user_id].sub_ids, requests[r].sub_id))
    /\ [][\A id \in Users :
              users[id] # NoRow =>
                  /\ users'[id] # NoRow
                  /\ \A i \in 1..Len(users[id].sub_ids) :
                         Contains(users'[id].sub_ids, users[id].sub_ids[i])]_vars

\* two requests to create the same user raced: each SELECT ran before either
\* INSERT, and both have been answered
Raced(r1, r2) ==
    /\ r1 # r2
    /\ requests[r1].op = "create_user" /\ requests[r2].op = "create_user"
    /\ requests[r1].user_id = requests[r2].user_id
    /\ requests[r1].pc = "done" /\ requests[r2].pc = "done"
    /\ ~requests[r1].found /\ ~requests[r2].found

\* no request to change the e-mail has arrived
NoEmailRequest == \A r \in Requests : requests[r].op # "update_user_email"

\* the requests that created the user id
Winners(id) ==
    {r \in Requests : /\ requests[r].op = "create_user"
                      /\ requests[r].user_id = id
                      /\ requests[r].pc = "done"
                      /\ requests[r].status_code = HTTP_200_OK}

\* C23: when two requests to create the same user id race, exactly one request
\* is answered with success and the requests that lost with Conflict (none
\* raises), and the row stored is the one the successful request wrote.
C23_CreateRaceHasOneWinner ==
    \A r1, r2 \in Requests :
        Raced(r1, r2) =>
            LET W == Winners(requests[r1].user_id)
                row == users[requests[r1].user_id]
            IN /\ Cardinality(W) = 1
               /\ \A l \in {r1, r2} \ W : requests[l].status_code = HTTP_409_CONFLICT
               /\ \A w \in W :
                      /\ row # NoRow
                      /\ Head(row.sub_ids) = requests[w].sub_id
                      /\ NoEmailRequest => row.email = requests[w].email

\* two creations with different sub ids and e-mails have raced
C23_Witness ==
    \E r1, r2 \in Requests :
        /\ Raced(r1, r2)
        /\ requests[r1].status_code = HTTP_200_OK
        /\ requests[r2].status_code = HTTP_409_CONFLICT
        /\ requests[r1].sub_id # requests[r2].sub_id
        /\ requests[r1].email # requests[r2].email

\* the sub_ids hold no id twice
NoDuplicates(sub_ids) ==
    \A i, j \in 1..Len(sub_ids) : i # j => sub_ids[i] # sub_ids[j]

\* C24: in every reachable state, the states reached through concurrent
\* add_sub_account requests included, no user's sub_ids holds the same id twice.
C24_NoDuplicateSubIds ==
    \A id \in Users : users[id] # NoRow => NoDuplicates(users[id].sub_ids)

\* two requests adding the same sub id both passed the membership test, both
\* ran their UPDATE and were answered with success
C24_Witness ==
    \E r1, r2 \in Requests :
        /\ r1 # r2
        /\ requests[r1].op = "add_sub_account" /\ requests[r2].op = "add_sub_account"
        /\ requests[r1].sub_id = requests[r2].sub_id
        /\ requests[r1].status_code = HTTP_200_OK
        /\ requests[r2].status_code = HTTP_200_OK
        /\ Contains(users[requests[r1].user_id].sub_ids, requests[r1].sub_id)

\* C25: within one running Ledger the records are never deleted or reordered:
\* after any call of append, update_status, deposit, transfer or confirm, the
\* in-memory sequence before the call is a prefix of the sequence after it,
\* compared by record id.
C25_RecordsKeepTheirPlace ==
    [][/\ Len(transactions') >= Len(transactions)
       /\ \A i \in 1..Len(transactions) : transactions'[i].id = transactions[i].id]_vars

\* an update (direct, or by confirm) has acted on a ledger of two records
C25_Witness ==
    /\ call.op \in {"update_transaction_status", "confirm"}
    /\ Len(transactions) = 2
    /\ \E i \in 1..2 : transactions[i].status = "COMPLETED"

\* C26: in every reachable state, a reload included, every deposit record
\* satisfies gross == net + fee, with fee = 2.9% of gross + 0.30 and
\* net = gross - fee.
C26_DepositGrossIsNetPlusFee ==
    \A i \in 1..Len(transactions) :
        transactions[i].type = "STRIPE_DEPOSIT" =>
            /\ transactions[i].fee = fee(transactions[i].gross)
            /\ transactions[i].net = float_sub(transactions[i].gross, transactions[i].fee)
            /\ transactions[i].gross = float_add(transactions[i].net, transactions[i].fee)

\* C27: no persisted record is lost across a restart: every valid record that is
\* in the store when a Ledger is constructed is still in the store after any
\* later successful mutation, also when the store held a corrupt entry when it
\* was loaded.
C27_StoredRecordsSurviveMutation ==
    [][(call'.op = "log_transaction" /\ store.kind = "json" /\ store'.kind = "json") =>
          \A i \in 1..Len(store.data) :
              ~ItemRaises(store.data[i]) =>
                  \E j \in 1..Len(store'.data) : store'.data[j] = store.data[i]]_vars

\* C28: after any sequence of deposit, transfer and confirm calls with positive
\* amounts no user's balance is negative: a transfer is recorded as completed
\* only when the user's completed deposits cover it.
C28_BalanceNeverNegative ==
    \A user_id \in Users : get_user_balance(transactions, user_id).balance >= 0

\* C29: confirm is idempotent while the provider's answer for a reference does
\* not change: a second call with the same reference returns the same result as
\* the first and leaves the in-memory sequence exactly as the first call left it.
C29_ConfirmIsIdempotent ==
    [][(/\ call.op = "confirm" /\ call'.op = "confirm"
        /\ call'.ref = call.ref
        /\ result'.success = result.success) =>
          /\ result' = result
          /\ transactions' = transactions]_vars

\* a deposit was confirmed and then confirmed again
C29_Witness ==
    /\ call.op = "confirm"
    /\ call.again
    /\ result.success
    /\ result.transaction_id # None
    /\ \E i \in 1..Len(transactions) :
           /\ transactions[i].id = result.transaction_id
           /\ transactions[i].status = "COMPLETED"

\* C30: a failed write of the backing store leaves the store exactly as it was
\* before the call: the previous content is never replaced by an empty or partial
\* file.
C30_FailedWriteKeepsStore ==
    [][faults' > faults => store' = store]_vars
==============================================================================
